---- MODULE Spec2Model ----
(***************************************************************************)
(* Model of the chat-history backend: the durable tables (chats,           *)
(* interactions), the two process-wide caches of                           *)
(* repository/chat_repository.py (chat_cache, user_chats_cache), the       *)
(* repository methods, the service layer that attaches suggestions, and    *)
(* the route handlers that call verify_user_ownership before every         *)
(* operation.                                                              *)
(*                                                                         *)
(* Spec      : requests are handled one at a time (each handler is one     *)
(*             action), any database statement may raise SQLAlchemyError,  *)
(*             and the process may restart (the caches are emptied, the    *)
(*             tables are kept).                                           *)
(* SpecConc  : ChatRepository.add_message calls run as interleaved steps   *)
(*             on the shared cache and the shared tables.                  *)
(***************************************************************************)
EXTENDS Integers, Sequences, FiniteSets, TLC

\* ---------------------------------------------------------------- bounds
\* Number of chats that can be created.
MaxChats == 2
\* Number of interaction ids (uuid4 values) that can be issued.
MaxInteractions == 3
\* Number of concurrent add_message calls in SpecConc.
MaxProcs == 2
\* Greatest value of datetime.now() in SpecTimestamps.
MaxClock == 2

Users == {"A", "B"}
ChatNames == {"Trip Planning"}
Messages == {"hello", "how are you?"}
ChatIds == 1..MaxChats
InteractionIds == 1..MaxInteractions
Procs == 1..MaxProcs

\* Python's None, as the value of Interaction.message for the greeting.
None == "None"

\* The statements of a repository write method at which the database can raise
\* SQLAlchemyError: its first query, its commit, and a query that follows the
\* commit ("none": no statement raises).
FailPoints == {"none", "lookup", "commit", "reload"}

VARIABLES
    chats,             \* table chats: rows [id, user_id, name]
    interactions,      \* table interactions: rows [id, chat_id, index, message, response]
    chat_cache,        \* dict chat_id -> [user_id, chat_name, chat_id, interactions]
    user_chats_cache,  \* dict user_id -> list of [chat_id, chat_name]
    issued,            \* number of interaction ids issued so far
    result,            \* what the last request returned
    inflight,          \* SpecConc: the local state of each running add_message
    users,             \* table users: rows [id, username, hashed_password]
    timestamps         \* clock, timestamp column by row id, "timestamp" key by cached dict id

vars == <<chats, interactions, chat_cache, user_chats_cache, issued, result,
          inflight, users, timestamps>>

\* ------------------------------------------------------------- helpers
\* d[k] = v on a Python dict.
Put(d, k, v) == [x \in (DOMAIN d) \cup {k} |-> IF x = k THEN v ELSE d[x]]

EmptyDict == <<>>

\* No datetime.now() taken yet, no row and no cached dict with a timestamp.
NoTimestamps == [clock |-> 0, row |-> EmptyDict, cached |-> EmptyDict]

\* The keyword table, in dict order, restricted to the keys that occur in
\* Messages or in the greeting request "Hello".
predefined_responses ==
    << [key |-> "Hello", response |-> "Hello! How can I assist you today?"],
       [key |-> "What is your name?", response |-> "I am a simple chatbot created to assist you."],
       [key |-> "How are you?", response |-> "I'm doing well! Thanks for asking. How can I assist you today?"] >>

\* key.lower() in message.strip().lower(), tabulated for the messages used here.
KeyInMessage(key, message) ==
    \/ key = "Hello" /\ message \in {"hello", "Hello"}
    \/ key = "How are you?" /\ message = "how are you?"

DefaultResponse == "Sorry, I don't understand that. Can you ask something else?"

\* ChatService.get_response: the response of the first key, in dict order,
\* that the message contains.
get_response(message) ==
    LET hits == {i \in 1..Len(predefined_responses) :
                    KeyInMessage(predefined_responses[i].key, message)}
    IN IF hits = {} THEN DefaultResponse
       ELSE predefined_responses[CHOOSE i \in hits : \A j \in hits : i <= j].response

\* Mutant of create_interaction: message and response change places.
create_interaction_swapped(message, response, interaction_id, index) ==
    [interaction_id |-> interaction_id, index |-> index, message |-> response,
     response |-> message, suggestions |-> FALSE]

\* ChatRepository.create_interaction: the dict kept in the cache. The field
\* suggestions records whether the service has set the key "suggestions" on
\* this dict (the list itself is random and is not modelled).
create_interaction(message, response, interaction_id, index) ==
    [interaction_id |-> interaction_id, index |-> index, message |-> message,
     response |-> response, suggestions |-> FALSE]

\* The rows of a chat.
RowsOf(ints, chat_id) == {r \in ints : r.chat_id = chat_id}

\* .order_by(Interaction.index).all(): rows in index order (rows that share an
\* index come in id order, i.e. insertion order).
RECURSIVE OrderByIndex(_)
OrderByIndex(S) ==
    IF S = {} THEN <<>>
    ELSE LET first == CHOOSE r \in S : \A q \in S :
                          \/ r.index < q.index
                          \/ r.index = q.index /\ r.id <= q.id
         IN <<first>> \o OrderByIndex(S \ {first})

RowToDict(r) ==
    [interaction_id |-> r.id, index |-> r.index, message |-> r.message,
     response |-> r.response, suggestions |-> FALSE]

\* response[-1]["suggestions"] = ... on a list of dicts.
SuggestLast(list) ==
    IF Len(list) = 0 THEN list
    ELSE [list EXCEPT ![Len(list)].suggestions = TRUE]

NoData == [user_id |-> "", chat_name |-> "", chat_id |-> 0, interactions |-> <<>>]

\* --------------------------------------------------- repository methods
\* A load whose chat query has no filter on the id: owner and name are those
\* of the first chat row.
load_chat_from_db_any_chat(chs, ints, cache, chat_id, dbok) ==
    LET rows == RowsOf(ints, chat_id)
        chat == {c \in chs : c.id = chat_id}
    IN IF ~dbok \/ rows = {} \/ chat = {}
       THEN [cache |-> cache, found |-> FALSE, data |-> NoData]
       ELSE LET ch == CHOOSE c \in chs : \A d \in chs : c.id <= d.id
                chat_data == [user_id |-> ch.user_id, chat_name |-> ch.name,
                              chat_id |-> chat_id,
                              interactions |->
                                  LET ordered == OrderByIndex(rows)
                                  IN [i \in 1..Len(ordered) |-> RowToDict(ordered[i])]]
            IN [cache |-> Put(cache, chat_id, chat_data), found |-> TRUE,
                data |-> chat_data]

\* A load that caches an empty entry for a chat it did not find.
load_chat_from_db_caches_miss(chs, ints, cache, chat_id, dbok) ==
    LET rows == RowsOf(ints, chat_id)
        chat == {c \in chs : c.id = chat_id}
    IN IF ~dbok \/ rows = {} \/ chat = {}
       THEN [cache |-> Put(cache, chat_id, NoData), found |-> FALSE, data |-> NoData]
       ELSE LET ch == CHOOSE c \in chat : TRUE
                chat_data == [user_id |-> ch.user_id, chat_name |-> ch.name,
                              chat_id |-> chat_id,
                              interactions |->
                                  LET ordered == OrderByIndex(rows)
                                  IN [i \in 1..Len(ordered) |-> RowToDict(ordered[i])]]
            IN [cache |-> Put(cache, chat_id, chat_data), found |-> TRUE,
                data |-> chat_data]

\* ChatRepository.load_chat_from_db. dbok = FALSE: the query raises, which the
\* method catches. Returns the new cache, whether a chat was found, and it.
load_chat_from_db(chs, ints, cache, chat_id, dbok) ==
    LET rows == RowsOf(ints, chat_id)
        chat == {c \in chs : c.id = chat_id}
    IN IF ~dbok \/ rows = {} \/ chat = {}
       THEN [cache |-> cache, found |-> FALSE, data |-> NoData]
       ELSE LET ch == CHOOSE c \in chat : TRUE
                chat_data == [user_id |-> ch.user_id, chat_name |-> ch.name,
                              chat_id |-> chat_id,
                              interactions |->
                                  LET ordered == OrderByIndex(rows)
                                  IN [i \in 1..Len(ordered) |-> RowToDict(ordered[i])]]
            IN [cache |-> Put(cache, chat_id, chat_data), found |-> TRUE,
                data |-> chat_data]

\* Mutant of verify_user_ownership: a chat that had to be loaded is taken to
\* be the caller's.
verify_user_ownership_miss_ok(chs, ints, cache, chat_id, user_id, dbok) ==
    IF chat_id \notin DOMAIN cache
    THEN LET l == load_chat_from_db(chs, ints, cache, chat_id, dbok)
         IN IF ~l.found THEN [cache |-> cache, ok |-> FALSE]
            ELSE [cache |-> Put(l.cache, chat_id, l.data), ok |-> TRUE]
    ELSE [cache |-> cache, ok |-> cache[chat_id].user_id = user_id]

\* ChatRepository.verify_user_ownership.
verify_user_ownership(chs, ints, cache, chat_id, user_id, dbok) ==
    IF chat_id \notin DOMAIN cache
    THEN LET l == load_chat_from_db(chs, ints, cache, chat_id, dbok)
         IN IF ~l.found THEN [cache |-> l.cache, ok |-> FALSE]
            ELSE [cache |-> Put(l.cache, chat_id, l.data),
                  ok |-> l.data.user_id = user_id]
    ELSE [cache |-> cache, ok |-> cache[chat_id].user_id = user_id]

\* A get_chat without the cache test: every call loads from the database.
get_chat_always_load(chs, ints, cache, chat_id, dbok) ==
    load_chat_from_db(chs, ints, cache, chat_id, dbok)

\* ChatRepository.get_chat.
get_chat(chs, ints, cache, chat_id, dbok) ==
    IF chat_id \in DOMAIN cache
    THEN [cache |-> cache, found |-> TRUE, data |-> cache[chat_id]]
    ELSE load_chat_from_db(chs, ints, cache, chat_id, dbok)

\* Mutant of NewIndex: a one-based index.
NewIndexOneBased(list) == Len(list) + 1

\* add_message: new_index = len(chat_cache[chat_id]["interactions"]).
NewIndex(list) == Len(list)

\* An edit that writes the new message and keeps the stored response.
RowsAfterEditKeepResponse(ints, interaction, new_message, new_response) ==
    LET edited == [interaction EXCEPT !.message = new_message]
    IN ((ints \ {interaction}) \cup {edited}) \
           {r \in ints : r.chat_id = interaction.chat_id
                         /\ r.index > interaction.index}

\* edit_message: the rows left by the update of the edited row and the delete
\* of the rows of its chat with a greater index.
RowsAfterEdit(ints, interaction, new_message, new_response) ==
    LET edited == [interaction EXCEPT !.message = new_message,
                                      !.response = new_response]
    IN ((ints \ {interaction}) \cup {edited}) \
           {r \in ints : r.chat_id = interaction.chat_id
                         /\ r.index > interaction.index}

\* The position of the first cached dict with this interaction_id (0: none).
FindById(list, interaction_id) ==
    LET hits == {i \in 1..Len(list) : list[i].interaction_id = interaction_id}
    IN IF hits = {} THEN 0 ELSE CHOOSE i \in hits : \A j \in hits : i <= j

\* Mutant of CacheAfterEdit: the dict is rewritten, the list is not cut.
CacheAfterEditNoCut(list, interaction_id, new_message, new_response) ==
    LET i == FindById(list, interaction_id)
    IN IF i = 0 THEN list
       ELSE [list EXCEPT ![i].message = new_message, ![i].response = new_response]

\* edit_message: the cached list after the loop that looks for the dict with
\* this id, rewrites it and cuts the list behind it.
CacheAfterEdit(list, interaction_id, new_message, new_response) ==
    LET i == FindById(list, interaction_id)
    IN IF i = 0 THEN list
       ELSE SubSeq([list EXCEPT ![i].message = new_message,
                                ![i].response = new_response], 1, i)

\* Mutant of RowsAfterDelete: > for >=.
RowsAfterDeleteStrict(ints, chat_id, index_to_delete) ==
    ints \ {r \in ints : r.chat_id = chat_id /\ r.index > index_to_delete}

\* delete_message: the rows left by the delete of the rows of the chat with
\* this index or a greater one.
RowsAfterDelete(ints, chat_id, index_to_delete) ==
    ints \ {r \in ints : r.chat_id = chat_id /\ r.index >= index_to_delete}

\* Mutant of CacheAfterDelete: <= for <, the dict of the deleted row stays.
CacheAfterDeleteKeepsTarget(list, index_to_delete) ==
    SelectSeq(list, LAMBDA i : i.index <= index_to_delete)

\* Mutant of CacheAfterDelete: the filter also drops the dict just before the
\* deleted one.
CacheAfterDeleteOneMore(list, index_to_delete) ==
    SelectSeq(list, LAMBDA i : i.index + 1 < index_to_delete)

\* delete_message: the cached list, filtered.
CacheAfterDelete(list, index_to_delete) ==
    SelectSeq(list, LAMBDA i : i.index < index_to_delete)

\* What a repository write method hands back: the tables and caches after the
\* call, whether it returned a value (found = FALSE: it returned None), the
\* value as a list of dicts, the chat whose cached list holds the very dicts
\* of value (0: none; the service's write to value[-1] then reaches the cache),
\* the chat and index of the interaction the call worked on, and the statement
\* that raised SQLAlchemyError ("none": no statement raised).
Ret(ints, cache, n, found, value, alias, target, index, raised) ==
    [interactions |-> ints, cache |-> cache, issued |-> n, found |-> found,
     value |-> value, alias |-> alias, target |-> target, index |-> index,
     raised |-> raised]

\* Returning None: no list, and nothing to say about an interaction.
RetNone(ints, cache, n, raised) ==
    Ret(ints, cache, n, FALSE, <<>>, 0, 0, -1, raised)

\* Mutant of add_message: the append to the cached list comes before the
\* commit, so it stays when the commit raises.
add_message_append_first(chs, ints, cache, n, chat_id, message, response, fail) ==
    LET l == IF chat_id \in DOMAIN cache
             THEN [cache |-> cache, found |-> TRUE]
             ELSE load_chat_from_db(chs, ints, cache, chat_id, fail # "lookup")
    IN IF ~l.found
       THEN RetNone(ints, l.cache, n,
                    IF chat_id \notin DOMAIN cache /\ fail = "lookup"
                    THEN "lookup" ELSE "none")
       ELSE LET new_index == NewIndex(l.cache[chat_id].interactions)
                interaction_id == n + 1
                interaction == create_interaction(message, response,
                                                  interaction_id, new_index)
                db_interaction == [id |-> interaction_id, chat_id |-> chat_id,
                                   index |-> new_index, message |-> message,
                                   response |-> response]
                cache2 == [l.cache EXCEPT ![chat_id].interactions =
                                              Append(@, interaction)]
            IN IF fail = "commit"
               THEN RetNone(ints, cache2, n, "commit")
               ELSE Ret(ints \cup {db_interaction}, cache2, n + 1, TRUE,
                        <<interaction>>, chat_id, chat_id, new_index, "none")

\* ChatRepository.add_message.
add_message(chs, ints, cache, n, chat_id, message, response, fail) ==
    LET l == IF chat_id \in DOMAIN cache
             THEN [cache |-> cache, found |-> TRUE]
             ELSE load_chat_from_db(chs, ints, cache, chat_id, fail # "lookup")
    IN IF ~l.found
       THEN RetNone(ints, l.cache, n,
                    IF chat_id \notin DOMAIN cache /\ fail = "lookup"
                    THEN "lookup" ELSE "none")
       ELSE LET new_index == NewIndex(l.cache[chat_id].interactions)
                interaction_id == n + 1
                interaction == create_interaction(message, response,
                                                  interaction_id, new_index)
                db_interaction == [id |-> interaction_id, chat_id |-> chat_id,
                                   index |-> new_index, message |-> message,
                                   response |-> response]
            IN IF fail = "commit"
               THEN RetNone(ints, l.cache, n, "commit")
               ELSE Ret(ints \cup {db_interaction},
                        [l.cache EXCEPT ![chat_id].interactions =
                                            Append(@, interaction)],
                        n + 1, TRUE, <<interaction>>, chat_id, chat_id,
                        new_index, "none")

\* ChatRepository.edit_message.
edit_message(chs, ints, cache, n, interaction_id, new_message, new_response, fail) ==
    LET found == {r \in ints : r.id = interaction_id}
    IN IF fail = "lookup"
       THEN RetNone(ints, cache, n, "lookup")
       ELSE IF found = {}
       THEN RetNone(ints, cache, n, "none")
       ELSE LET interaction == CHOOSE r \in found : TRUE
                updated_interaction_index == interaction.index
                chat_id == interaction.chat_id
                ints2 == RowsAfterEdit(ints, interaction, new_message, new_response)
            IN IF fail = "commit"
               THEN RetNone(ints, cache, n, "commit")
               ELSE IF chat_id \in DOMAIN cache
               THEN LET list2 == CacheAfterEdit(cache[chat_id].interactions,
                                                 interaction_id, new_message,
                                                 new_response)
                    IN Ret(ints2, [cache EXCEPT ![chat_id].interactions = list2],
                           n, TRUE, list2, chat_id, chat_id,
                           updated_interaction_index, "none")
               ELSE LET l == load_chat_from_db(chs, ints2, cache, chat_id,
                                               fail # "reload")
                    IN IF l.found
                       THEN Ret(ints2, l.cache, n, TRUE, l.data.interactions,
                                chat_id, chat_id, updated_interaction_index, "none")
                       ELSE RetNone(ints2, l.cache, n,
                                    IF fail = "reload" THEN "reload" ELSE "none")

\* A delete_message that answers a missing interaction id with the empty
\* list instead of None.
delete_message_miss_is_empty(chs, ints, cache, n, interaction_id, fail) ==
    LET found == {r \in ints : r.id = interaction_id}
    IN IF fail = "lookup"
       THEN RetNone(ints, cache, n, "lookup")
       ELSE IF found = {}
       THEN Ret(ints, cache, n, TRUE, <<>>, 0, 0, -1, "none")
       ELSE LET interaction == CHOOSE r \in found : TRUE
                chat_id == interaction.chat_id
                index_to_delete == interaction.index
                ints2 == RowsAfterDelete(ints, chat_id, index_to_delete)
            IN IF fail = "commit"
               THEN RetNone(ints, cache, n, "commit")
               ELSE IF chat_id \in DOMAIN cache
               THEN LET list2 == CacheAfterDelete(cache[chat_id].interactions,
                                                   index_to_delete)
                    IN Ret(ints2, [cache EXCEPT ![chat_id].interactions = list2],
                           n, TRUE, list2, chat_id, chat_id, index_to_delete, "none")
               ELSE IF fail = "reload"
               THEN RetNone(ints2, cache, n, "reload")
               ELSE LET remaining_interactions == OrderByIndex(RowsOf(ints2, chat_id))
                    IN Ret(ints2, cache, n, TRUE,
                           [i \in 1..Len(remaining_interactions) |->
                               RowToDict(remaining_interactions[i])],
                           0, chat_id, index_to_delete, "none")

\* ChatRepository.delete_message.
delete_message(chs, ints, cache, n, interaction_id, fail) ==
    LET found == {r \in ints : r.id = interaction_id}
    IN IF fail = "lookup"
       THEN RetNone(ints, cache, n, "lookup")
       ELSE IF found = {}
       THEN RetNone(ints, cache, n, "none")
       ELSE LET interaction == CHOOSE r \in found : TRUE
                chat_id == interaction.chat_id
                index_to_delete == interaction.index
                ints2 == RowsAfterDelete(ints, chat_id, index_to_delete)
            IN IF fail = "commit"
               THEN RetNone(ints, cache, n, "commit")
               ELSE IF chat_id \in DOMAIN cache
               THEN LET list2 == CacheAfterDelete(cache[chat_id].interactions,
                                                   index_to_delete)
                    IN Ret(ints2, [cache EXCEPT ![chat_id].interactions = list2],
                           n, TRUE, list2, chat_id, chat_id, index_to_delete, "none")
               ELSE IF fail = "reload"
               THEN RetNone(ints2, cache, n, "reload")
               ELSE LET remaining_interactions == OrderByIndex(RowsOf(ints2, chat_id))
                    IN Ret(ints2, cache, n, TRUE,
                           [i \in 1..Len(remaining_interactions) |->
                               RowToDict(remaining_interactions[i])],
                           0, chat_id, index_to_delete, "none")

\* ------------------------------------------------------- service layer
\* ChatService.add_message / edit_message / delete_message after the
\* repository call: suggestions are set on the last dict of the returned
\* list, which is a dict of the cache when the list is the cached one.
WithSuggestions(r) ==
    IF ~r.found \/ Len(r.value) = 0 THEN r
    ELSE [r EXCEPT !.value = SuggestLast(@),
                   !.cache = IF r.alias = 0 THEN @
                             ELSE [@ EXCEPT ![r.alias].interactions = SuggestLast(@)]]

svc_add_message(chs, ints, cache, n, chat_id, message, fail) ==
    WithSuggestions(add_message(chs, ints, cache, n, chat_id, message,
                                get_response(message), fail))

svc_edit_message(chs, ints, cache, n, interaction_id, new_message, fail) ==
    WithSuggestions(edit_message(chs, ints, cache, n, interaction_id, new_message,
                                 get_response(new_message), fail))

svc_delete_message(chs, ints, cache, n, interaction_id, fail) ==
    WithSuggestions(delete_message(chs, ints, cache, n, interaction_id, fail))

\* ChatService.get_chat: the returned chat_data is the cache entry itself.
svc_get_chat(chs, ints, cache, chat_id, dbok) ==
    LET g == get_chat(chs, ints, cache, chat_id, dbok)
    IN IF ~g.found \/ Len(g.data.interactions) = 0 THEN g
       ELSE [g EXCEPT !.data.interactions = SuggestLast(@),
                      !.cache = [@ EXCEPT ![chat_id].interactions = SuggestLast(@)]]

\* A create_chat that fills chat_cache and user_chats_cache before the commit:
\* when the commit raises the entries stay.
create_chat_cache_first(chs, ints, cache, ucache, n, chat_name, greeting, user_id, fail) ==
    LET chat_id == Cardinality(chs) + 1
        interaction == [create_interaction(None, greeting, n + 1, 0)
                           EXCEPT !.suggestions = TRUE]
        chat_data == [user_id |-> user_id, chat_name |-> chat_name,
                      chat_id |-> chat_id, interactions |-> <<interaction>>]
        entry == [chat_id |-> chat_id, chat_name |-> chat_name]
        filled == IF user_id \in DOMAIN ucache
                  THEN [ucache EXCEPT ![user_id] = Append(@, entry)]
                  ELSE Put(ucache, user_id, <<entry>>)
    IN IF fail = "commit"
       THEN [chats |-> chs, interactions |-> ints,
             cache |-> Put(cache, chat_id, chat_data), ucache |-> filled,
             issued |-> n, found |-> FALSE, value |-> <<>>, chat_id |-> 0]
       ELSE [chats |-> chs \cup {[id |-> chat_id, user_id |-> user_id,
                                  name |-> chat_name]},
             interactions |-> ints \cup {[id |-> n + 1, chat_id |-> chat_id,
                                          index |-> 0, message |-> None,
                                          response |-> greeting]},
             cache |-> Put(cache, chat_id, chat_data), ucache |-> filled,
             issued |-> n + 1, found |-> TRUE, value |-> <<interaction>>,
             chat_id |-> chat_id]

\* ChatRepository.create_chat followed by ChatService.create_chat, which sets
\* suggestions on the returned interaction: the dict the cache holds.
\* uuid4 is a fresh id: the next unused number.
create_chat(chs, ints, cache, ucache, n, chat_name, greeting, user_id, fail) ==
    LET chat_id == Cardinality(chs) + 1
        interaction_id == n + 1
        index == 0
        interaction == [create_interaction(None, greeting, interaction_id, index)
                           EXCEPT !.suggestions = TRUE]
        db_chat == [id |-> chat_id, user_id |-> user_id, name |-> chat_name]
        db_interaction == [id |-> interaction_id, chat_id |-> chat_id,
                           index |-> index, message |-> None, response |-> greeting]
        chat_data == [user_id |-> user_id, chat_name |-> chat_name,
                      chat_id |-> chat_id, interactions |-> <<interaction>>]
        entry == [chat_id |-> chat_id, chat_name |-> chat_name]
    IN IF fail = "commit"
       THEN [chats |-> chs, interactions |-> ints, cache |-> cache,
             ucache |-> ucache, issued |-> n, found |-> FALSE, value |-> <<>>,
             chat_id |-> 0]
       ELSE [chats |-> chs \cup {db_chat},
             interactions |-> ints \cup {db_interaction},
             cache |-> Put(cache, chat_id, chat_data),
             ucache |-> IF user_id \in DOMAIN ucache
                        THEN [ucache EXCEPT ![user_id] = Append(@, entry)]
                        ELSE Put(ucache, user_id, <<entry>>),
             issued |-> n + 1, found |-> TRUE, value |-> <<interaction>>,
             chat_id |-> chat_id]

\* db.query(Chat).filter(Chat.user_id == user_id).all(): the user's chat rows,
\* in the order they were inserted.
RECURSIVE ChatsInOrder(_)
ChatsInOrder(S) ==
    IF S = {} THEN <<>>
    ELSE LET first == CHOOSE c \in S : \A d \in S : c.id <= d.id
         IN <<[chat_id |-> first.id, chat_name |-> first.name]>>
                \o ChatsInOrder(S \ {first})

\* ChatRepository.list_user_chats. found = FALSE: it returned None.
list_user_chats(chs, ucache, user_id, dbok) ==
    IF user_id \in DOMAIN ucache
    THEN [ucache |-> ucache, found |-> TRUE, listing |-> ucache[user_id]]
    ELSE IF ~dbok
    THEN [ucache |-> ucache, found |-> FALSE, listing |-> <<>>]
    ELSE LET user_chats == ChatsInOrder({c \in chs : c.user_id = user_id})
         IN [ucache |-> Put(ucache, user_id, user_chats), found |-> TRUE,
             listing |-> user_chats]

\* --------------------------------------------------------------- routes
\* What a request returned: the HTTP status, the list of interactions in the
\* body (value), the list of chats in the body (listing), the chat and index
\* of the interaction the repository worked on, and the database statement
\* that raised during the request ("none": none did). user and chat_id are
\* the caller and the chat id of the URL.
Response(op, user, chat_id, status, value, listing, target, index, raised) ==
    [op |-> op, user |-> user, chat_id |-> chat_id, status |-> status,
     value |-> value, listing |-> listing, target |-> target, index |-> index,
     raised |-> raised]

NoResponse == Response("none", "", 0, 0, <<>>, <<>>, 0, -1, "none")

\* The ownership check every chat route starts with. vfail: the load that
\* verify_user_ownership runs for a chat that is not cached raises.
Verify(u, c, vfail) ==
    verify_user_ownership(chats, interactions, chat_cache, c, u, ~vfail)

\* A route that checks ownership only after it has run the delete: the rows
\* of the chat are gone when the 403 is sent.
DeniedAfterAction(op, u, c, v, vfail) ==
    /\ chat_cache' = v.cache
    /\ interactions' = IF op = "delete" THEN RowsAfterDelete(interactions, c, 0)
                       ELSE interactions
    /\ result' = Response(op, u, c, 403, <<>>, <<>>, 0, -1,
                          IF vfail THEN "verify" ELSE "none")
    /\ UNCHANGED <<timestamps, users, chats, user_chats_cache, issued, inflight>>

\* The 403 of every route whose verify_user_ownership returned False.
Denied(op, u, c, v, vfail) ==
    /\ chat_cache' = v.cache
    /\ result' = Response(op, u, c, 403, <<>>, <<>>, 0, -1,
                          IF vfail THEN "verify" ELSE "none")
    /\ UNCHANGED <<timestamps, users, chats, interactions, user_chats_cache, issued, inflight>>

\* What a message route does with the service's return value: None is a 404.
\* A failure point is taken only if the call reached that statement.
Reply(op, u, c, r, fail) ==
    /\ fail = r.raised
    /\ interactions' = r.interactions
    /\ chat_cache' = r.cache
    /\ issued' = r.issued
    /\ result' = Response(op, u, c, IF r.found THEN 200 ELSE 404,
                          r.value, <<>>, r.target, r.index, r.raised)
    /\ UNCHANGED <<timestamps, users, chats, user_chats_cache, inflight>>

\* routes/chats.py create_chat: the service's None is returned as it is.
CreateChatRequest(u, name, fail) ==
    /\ Cardinality(chats) < MaxChats
    /\ issued < MaxInteractions
    /\ LET r == create_chat(chats, interactions, chat_cache, user_chats_cache,
                            issued, name, get_response("Hello"), u, fail)
       IN /\ chats' = r.chats
          /\ interactions' = r.interactions
          /\ chat_cache' = r.cache
          /\ user_chats_cache' = r.ucache
          /\ issued' = r.issued
          /\ result' = Response("create", u, r.chat_id, 200, r.value,
                                IF r.found
                                THEN <<[chat_id |-> r.chat_id, chat_name |-> name]>>
                                ELSE <<>>,
                                r.chat_id, IF r.found THEN 0 ELSE -1, fail)
    /\ UNCHANGED <<timestamps, users, inflight>>

\* routes/chats.py get_chat_interactions.
GetChatRequest(u, c) ==
    \E vfail \in BOOLEAN :
        /\ vfail => c \notin DOMAIN chat_cache
        /\ LET v == Verify(u, c, vfail)
           IN IF ~v.ok THEN Denied("get", u, c, v, vfail)
              ELSE LET g == svc_get_chat(chats, interactions, v.cache, c, TRUE)
                   IN /\ chat_cache' = g.cache
                      /\ result' = Response("get", u, c,
                                            IF g.found THEN 200 ELSE 404,
                                            g.data.interactions, <<>>, c, -1, "none")
                      /\ UNCHANGED <<timestamps, users, chats, interactions, user_chats_cache,
                                     issued, inflight>>

\* routes/chats.py list_user_chats.
ListUserChatsRequest(u, dbok) ==
    /\ ~dbok => u \notin DOMAIN user_chats_cache
    /\ LET l == list_user_chats(chats, user_chats_cache, u, dbok)
       IN /\ user_chats_cache' = l.ucache
          /\ result' = Response("list", u, 0, 200, <<>>, l.listing, 0, -1,
                                IF dbok THEN "none" ELSE "lookup")
          /\ UNCHANGED <<timestamps, users, chats, interactions, chat_cache, issued, inflight>>

\* routes/messages.py add_message.
AddMessageRequest(u, c) ==
    /\ issued < MaxInteractions
    /\ \E vfail \in BOOLEAN :
        /\ vfail => c \notin DOMAIN chat_cache
        /\ LET v == Verify(u, c, vfail)
           IN IF ~v.ok THEN Denied("add", u, c, v, vfail)
              ELSE \E m \in Messages, fail \in FailPoints :
                       Reply("add", u, c,
                             svc_add_message(chats, interactions, v.cache, issued,
                                             c, m, fail), fail)

\* routes/messages.py edit_message.
EditMessageRequest(u, c) ==
    \E vfail \in BOOLEAN :
        /\ vfail => c \notin DOMAIN chat_cache
        /\ LET v == Verify(u, c, vfail)
           IN IF ~v.ok THEN Denied("edit", u, c, v, vfail)
              ELSE \E x \in InteractionIds, m \in Messages, fail \in FailPoints :
                       Reply("edit", u, c,
                             svc_edit_message(chats, interactions, v.cache, issued,
                                              x, m, fail), fail)

\* routes/messages.py delete_message.
DeleteMessageRequest(u, c) ==
    \E vfail \in BOOLEAN :
        /\ vfail => c \notin DOMAIN chat_cache
        /\ LET v == Verify(u, c, vfail)
           IN IF ~v.ok THEN Denied("delete", u, c, v, vfail)
              ELSE \E x \in InteractionIds, fail \in FailPoints :
                       Reply("delete", u, c,
                             svc_delete_message(chats, interactions, v.cache,
                                                issued, x, fail), fail)

\* The server process is restarted: the module-level dicts start empty, the
\* database file is kept.
Restart ==
    /\ chat_cache' = EmptyDict
    /\ user_chats_cache' = EmptyDict
    /\ result' = NoResponse
    /\ UNCHANGED <<timestamps, users, chats, interactions, issued, inflight>>

Init ==
    /\ chats = {}
    /\ interactions = {}
    /\ chat_cache = EmptyDict
    /\ user_chats_cache = EmptyDict
    /\ issued = 0
    /\ result = NoResponse
    /\ inflight = EmptyDict
    /\ users = {}
    /\ timestamps = NoTimestamps

\* Requests handled one at a time. list_user_chats reads and writes
\* user_chats_cache only, which no message route reads: it is exercised in
\* SpecDirectory.
Next ==
    \/ \E u \in Users, name \in ChatNames, fail \in {"none", "commit"} :
           CreateChatRequest(u, name, fail)
    \/ \E u \in Users, c \in ChatIds : GetChatRequest(u, c)
    \/ \E u \in Users, c \in ChatIds : AddMessageRequest(u, c)
    \/ \E u \in Users, c \in ChatIds : EditMessageRequest(u, c)
    \/ \E u \in Users, c \in ChatIds : DeleteMessageRequest(u, c)
    \/ Restart

Spec == Init /\ [][Next]_vars

\* ------------------------------------------- concurrent add_message calls
\* ChatRepository has no lock and chat_cache is a module-level dict, so two
\* add_message calls on the same chat that run on different threads interleave
\* at their statements: the read of the list length, the insert and commit,
\* the append to the cached list. (The route handlers are coroutines that never
\* await, so one event loop runs them one after the other; the interleavings
\* below are those of the repository method called from several threads.)
Idle == [pc |-> "idle", user |-> "", chat_id |-> 0, message |-> "",
         new_index |-> -1, interaction_id |-> 0]

\* routes/messages.py add_message up to the commit: the ownership check, then
\* add_message lines 181-193 (load if not cached, read the length, new id).
AddMessageStart(p, u, c, m) ==
    /\ inflight[p].pc = "idle"
    /\ issued < MaxInteractions
    /\ LET v == Verify(u, c, FALSE)
       IN IF ~v.ok
          THEN /\ chat_cache' = v.cache
               /\ result' = Response("add", u, c, 403, <<>>, <<>>, 0, -1, "none")
               /\ UNCHANGED <<timestamps, users, chats, interactions, user_chats_cache, issued, inflight>>
          ELSE /\ chat_cache' = v.cache
               /\ issued' = issued + 1
               /\ inflight' = [inflight EXCEPT ![p] =
                                  [pc |-> "commit", user |-> u, chat_id |-> c,
                                   message |-> m,
                                   new_index |-> NewIndex(v.cache[c].interactions),
                                   interaction_id |-> issued + 1]]
               /\ UNCHANGED <<timestamps, users, chats, interactions, user_chats_cache, result>>

\* add_message lines 195-203: self.db.add(db_interaction); self.db.commit().
AddMessageCommit(p) ==
    /\ inflight[p].pc = "commit"
    /\ LET f == inflight[p]
       IN interactions' = interactions \cup
              {[id |-> f.interaction_id, chat_id |-> f.chat_id,
                index |-> f.new_index, message |-> f.message,
                response |-> get_response(f.message)]}
    /\ inflight' = [inflight EXCEPT ![p].pc = "append"]
    /\ UNCHANGED <<timestamps, users, chats, chat_cache, user_chats_cache, issued, result>>

\* add_message lines 205-207 and the service's suggestions: the append to the
\* cached list and the return.
AddMessageAppend(p) ==
    /\ inflight[p].pc = "append"
    /\ LET f == inflight[p]
           interaction == [create_interaction(f.message, get_response(f.message),
                                              f.interaction_id, f.new_index)
                              EXCEPT !.suggestions = TRUE]
       IN /\ chat_cache' = [chat_cache EXCEPT ![f.chat_id].interactions =
                                                  Append(@, interaction)]
          /\ result' = Response("add", f.user, f.chat_id, 200, <<interaction>>,
                                <<>>, f.chat_id, f.new_index, "none")
    /\ inflight' = [inflight EXCEPT ![p] = Idle]
    /\ UNCHANGED <<timestamps, users, chats, interactions, user_chats_cache, issued>>

InitConc ==
    /\ chats = {}
    /\ interactions = {}
    /\ chat_cache = EmptyDict
    /\ user_chats_cache = EmptyDict
    /\ issued = 0
    /\ result = NoResponse
    /\ inflight = [p \in Procs |-> Idle]
    /\ users = {}
    /\ timestamps = NoTimestamps

NextConc ==
    \/ \E u \in Users, name \in ChatNames : CreateChatRequest(u, name, "none")
    \/ \E p \in Procs, u \in Users, c \in ChatIds, m \in Messages :
           AddMessageStart(p, u, c, m)
    \/ \E p \in Procs : AddMessageCommit(p)
    \/ \E p \in Procs : AddMessageAppend(p)

SpecConc == InitConc /\ [][NextConc]_vars

\* ---------------------------- concurrent add, edit and delete calls
\* edit_message and delete_message change the rows and commit, and only then
\* touch the cached list: a call on another thread can run in between.
\* target and index are interaction.chat_id and interaction.index.
\* routes/messages.py edit_message up to the commit: the ownership check, then
\* edit_message lines 225-244 (lookup, update, delete of later rows, commit).
EditMessageStart(p, u, c, x, m) ==
    /\ inflight[p].pc = "idle"
    /\ LET v == Verify(u, c, FALSE)
           found == {r \in interactions : r.id = x}
       IN IF ~v.ok THEN Denied("edit", u, c, v, FALSE)
          ELSE IF found = {}
          THEN /\ chat_cache' = v.cache
               /\ result' = Response("edit", u, c, 404, <<>>, <<>>, 0, -1, "none")
               /\ UNCHANGED <<timestamps, users, chats, interactions, user_chats_cache, issued, inflight>>
          ELSE LET interaction == CHOOSE r \in found : TRUE
               IN /\ interactions' = RowsAfterEdit(interactions, interaction, m,
                                                   get_response(m))
                  /\ chat_cache' = v.cache
                  /\ inflight' = [inflight EXCEPT ![p] =
                                     [pc |-> "edit_cache", user |-> u, chat_id |-> c,
                                      message |-> m, interaction_id |-> x,
                                      target |-> interaction.chat_id,
                                      index |-> interaction.index]]
                  /\ UNCHANGED <<timestamps, users, chats, user_chats_cache, issued, result>>

\* edit_message lines 246-257 and the service's suggestions: the rewrite and
\* cut of the cached list, or the reload of a chat that is not cached.
EditMessageCache(p) ==
    /\ inflight[p].pc = "edit_cache"
    /\ LET f == inflight[p]
       IN IF f.target \in DOMAIN chat_cache
          THEN LET list == SuggestLast(CacheAfterEdit(
                               chat_cache[f.target].interactions, f.interaction_id,
                               f.message, get_response(f.message)))
               IN /\ chat_cache' = [chat_cache EXCEPT ![f.target].interactions = list]
                  /\ result' = Response("edit", f.user, f.chat_id, 200, list, <<>>,
                                        f.target, f.index, "none")
          ELSE LET l == load_chat_from_db(chats, interactions, chat_cache,
                                          f.target, TRUE)
                   list == SuggestLast(l.data.interactions)
               IN IF l.found
                  THEN /\ chat_cache' = [l.cache EXCEPT ![f.target].interactions = list]
                       /\ result' = Response("edit", f.user, f.chat_id, 200, list,
                                             <<>>, f.target, f.index, "none")
                  ELSE /\ chat_cache' = chat_cache
                       /\ result' = Response("edit", f.user, f.chat_id, 404, <<>>,
                                             <<>>, 0, -1, "none")
    /\ inflight' = [inflight EXCEPT ![p] = Idle]
    /\ UNCHANGED <<timestamps, users, chats, interactions, user_chats_cache, issued>>

\* routes/messages.py delete_message up to the commit: the ownership check,
\* then delete_message lines 271-286 (lookup, delete of the rows, commit).
DeleteMessageStart(p, u, c, x) ==
    /\ inflight[p].pc = "idle"
    /\ LET v == Verify(u, c, FALSE)
           found == {r \in interactions : r.id = x}
       IN IF ~v.ok THEN Denied("delete", u, c, v, FALSE)
          ELSE IF found = {}
          THEN /\ chat_cache' = v.cache
               /\ result' = Response("delete", u, c, 404, <<>>, <<>>, 0, -1, "none")
               /\ UNCHANGED <<timestamps, users, chats, interactions, user_chats_cache, issued, inflight>>
          ELSE LET interaction == CHOOSE r \in found : TRUE
               IN /\ interactions' = RowsAfterDelete(interactions, interaction.chat_id,
                                                     interaction.index)
                  /\ chat_cache' = v.cache
                  /\ inflight' = [inflight EXCEPT ![p] =
                                     [pc |-> "delete_filter", user |-> u,
                                      chat_id |-> c, message |-> "",
                                      interaction_id |-> x,
                                      target |-> interaction.chat_id,
                                      index |-> interaction.index]]
                  /\ UNCHANGED <<timestamps, users, chats, user_chats_cache, issued, result>>

\* delete_message lines 288-310 and the service's suggestions: the filter of
\* the cached list, or the query of the remaining rows.
DeleteMessageFilter(p) ==
    /\ inflight[p].pc = "delete_filter"
    /\ LET f == inflight[p]
       IN IF f.target \in DOMAIN chat_cache
          THEN LET list == SuggestLast(CacheAfterDelete(
                               chat_cache[f.target].interactions, f.index))
               IN /\ chat_cache' = [chat_cache EXCEPT ![f.target].interactions = list]
                  /\ result' = Response("delete", f.user, f.chat_id, 200, list, <<>>,
                                        f.target, f.index, "none")
          ELSE LET remaining == OrderByIndex(RowsOf(interactions, f.target))
                   list == SuggestLast([k \in 1..Len(remaining) |->
                                           RowToDict(remaining[k])])
               IN /\ chat_cache' = chat_cache
                  /\ result' = Response("delete", f.user, f.chat_id, 200, list, <<>>,
                                        f.target, f.index, "none")
    /\ inflight' = [inflight EXCEPT ![p] = Idle]
    /\ UNCHANGED <<timestamps, users, chats, interactions, user_chats_cache, issued>>

\* The overlapping calls are those of one user on that user's chats.
Writers == {"A"}

NextConcWrites ==
    \/ \E u \in Writers, name \in ChatNames : CreateChatRequest(u, name, "none")
    \/ \E p \in Procs, u \in Writers, c \in ChatIds, m \in Messages :
           AddMessageStart(p, u, c, m)
    \/ \E p \in Procs : AddMessageCommit(p)
    \/ \E p \in Procs : AddMessageAppend(p)
    \/ \E p \in Procs, u \in Writers, c \in ChatIds, x \in InteractionIds,
          m \in Messages : EditMessageStart(p, u, c, x, m)
    \/ \E p \in Procs : EditMessageCache(p)
    \/ \E p \in Procs, u \in Writers, c \in ChatIds, x \in InteractionIds :
           DeleteMessageStart(p, u, c, x)
    \/ \E p \in Procs : DeleteMessageFilter(p)

SpecConcWrites == InitConc /\ [][NextConcWrites]_vars

\* -------------------- one add_message overlapping one edit or delete
\* As SpecConcWrites, with at most one add_message and at most one
\* edit_message or delete_message in flight.
NoAddInFlight ==
    \A q \in Procs : inflight[q].pc \notin {"commit", "append"}

NoTruncationInFlight ==
    \A q \in Procs : inflight[q].pc \notin {"edit_cache", "delete_filter"}

SingleAddStart(p, u, c, m) == NoAddInFlight /\ AddMessageStart(p, u, c, m)

SingleEditStart(p, u, c, x, m) ==
    NoTruncationInFlight /\ EditMessageStart(p, u, c, x, m)

SingleDeleteStart(p, u, c, x) ==
    NoTruncationInFlight /\ DeleteMessageStart(p, u, c, x)

NextConcTruncate ==
    \/ \E u \in Writers, name \in ChatNames : CreateChatRequest(u, name, "none")
    \/ \E p \in Procs, u \in Writers, c \in ChatIds, m \in Messages :
           SingleAddStart(p, u, c, m)
    \/ \E p \in Procs : AddMessageCommit(p)
    \/ \E p \in Procs : AddMessageAppend(p)
    \/ \E p \in Procs, u \in Writers, c \in ChatIds, x \in InteractionIds,
          m \in Messages : SingleEditStart(p, u, c, x, m)
    \/ \E p \in Procs : EditMessageCache(p)
    \/ \E p \in Procs, u \in Writers, c \in ChatIds, x \in InteractionIds :
           SingleDeleteStart(p, u, c, x)
    \/ \E p \in Procs : DeleteMessageFilter(p)

SpecConcTruncate == InitConc /\ [][NextConcTruncate]_vars

\* ------------------------------------------------------- chat directory
\* create_chat and list_user_chats on user_chats_cache, with restarts.
NextDirectory ==
    \/ \E u \in Users, name \in ChatNames, fail \in {"none", "commit"} :
           CreateChatRequest(u, name, fail)
    \/ \E u \in Users, dbok \in BOOLEAN : ListUserChatsRequest(u, dbok)
    \/ Restart

SpecDirectory == Init /\ [][NextDirectory]_vars

\* ------------------------------------------------- direct service calls
\* ChatService.add_message called without the route's ownership check, by a
\* caller that takes None as "not found" as the route does. There is no
\* caller identity at this level.
AddMessageCall(c) ==
    /\ issued < MaxInteractions
    /\ \E m \in Messages, fail \in FailPoints :
           Reply("add", "", c,
                 svc_add_message(chats, interactions, chat_cache, issued, c, m, fail),
                 fail)

NextService ==
    \/ \E u \in Users, name \in ChatNames, fail \in {"none", "commit"} :
           CreateChatRequest(u, name, fail)
    \/ \E c \in ChatIds : AddMessageCall(c)
    \/ \E u \in Users, c \in ChatIds : DeleteMessageRequest(u, c)
    \/ Restart

SpecService == Init /\ [][NextService]_vars

\* ------------------------------------------------- chats with own names
\* The requests of Spec, each new chat being given a name of its own.
NameOfNext == <<"Trip Planning", "Recipes">>

NextNames ==
    \/ \E u \in Users, fail \in {"none", "commit"} :
           /\ Cardinality(chats) < Len(NameOfNext)
           /\ CreateChatRequest(u, NameOfNext[Cardinality(chats) + 1], fail)
    \/ \E u \in Users, c \in ChatIds : GetChatRequest(u, c)
    \/ \E u \in Users, c \in ChatIds : AddMessageRequest(u, c)
    \/ \E u \in Users, c \in ChatIds : EditMessageRequest(u, c)
    \/ \E u \in Users, c \in ChatIds : DeleteMessageRequest(u, c)
    \/ Restart

SpecNames == Init /\ [][NextNames]_vars

\* ------------------------------------------------------- authentication
\* The salts bcrypt can draw for a hash.
MaxSalts == 2

Usernames == {"alice", "bob"}
Passwords == {"correct horse", "battery staple"}
Salts == 1..MaxSalts

\* CryptContext(schemes=["bcrypt"]).hash: a salted digest; the digest is a
\* function of salt and password.
hash_password(password, salt) ==
    [scheme |-> "bcrypt", salt |-> salt, digest |-> <<salt, password>>]

\* A verify that accepts every password.
verify_password_any(plain_password, hashed_password) ==
    hashed_password.scheme = "bcrypt"

\* CryptContext.verify: the digest of the plain password under the salt of
\* the hash is the stored digest.
verify_password(plain_password, hashed_password) ==
    hash_password(plain_password, hashed_password.salt).digest
        = hashed_password.digest

\* jwt.encode of the data (the expiry is not modelled).
create_access_token(data) == [sub |-> data.sub, token_type |-> "bearer"]

\* A lookup that finds no user.
get_user_by_username_none(us, username) == {}

\* UserRepository.get_user_by_username: the rows with this username.
get_user_by_username(us, username) == {r \in us : r.username = username}

\* What an AuthService method hands back: the users table after the call, the
\* exception it raised ("none": it returned), the token it returned, and the
\* database statement that raised SQLAlchemyError.
AuthRet(us, outcome, token, raised) ==
    [users |-> us, outcome |-> outcome, token |-> token, raised |-> raised]

\* AuthService.register_user with UserRepository.create_user.
register_user(us, username, password, salt, fail) ==
    LET existing_user == get_user_by_username(us, username)
        hashed_password == hash_password(password, salt)
        new_user == [id |-> Cardinality(us) + 1, username |-> username,
                     hashed_password |-> hashed_password]
    IN IF fail = "lookup"
       THEN AuthRet(us, "InternalServerException", <<>>, "lookup")
       ELSE IF existing_user # {}
       THEN AuthRet(us, "UserAlreadyExistsException", <<>>, "none")
       ELSE IF fail = "commit"
       THEN AuthRet(us, "InternalServerException", <<>>, "commit")
       ELSE AuthRet(us \cup {new_user}, "none",
                    <<create_access_token([sub |-> new_user.username])>>, "none")

\* AuthService.login_user.
login_user(us, username, password, fail) ==
    LET found == get_user_by_username(us, username)
    IN IF fail = "lookup"
       THEN AuthRet(us, "InternalServerException", <<>>, "lookup")
       ELSE IF found = {}
       THEN AuthRet(us, "InvalidCredentialsException", <<>>, "none")
       ELSE LET db_user == CHOOSE r \in found : TRUE
            IN IF ~verify_password(password, db_user.hashed_password)
               THEN AuthRet(us, "InvalidCredentialsException", <<>>, "none")
               ELSE AuthRet(us, "none",
                            <<create_access_token([sub |-> db_user.username])>>,
                            "none")

\* What an auth route returned: the status, and the token in the body.
AuthResponse(op, username, password, status, token, raised) ==
    [op |-> op, username |-> username, password |-> password, status |-> status,
     token |-> token, raised |-> raised]

\* The status the auth routes give to what the service raised.
AuthStatus(outcome) ==
    CASE outcome = "none" -> 200
      [] outcome = "UserAlreadyExistsException" -> 409
      [] outcome = "InvalidCredentialsException" -> 401
      [] OTHER -> 500

\* routes/auth.py register.
RegisterRequest(username, password) ==
    \E salt \in Salts, fail \in {"none", "lookup", "commit"} :
        LET r == register_user(users, username, password, salt, fail)
        IN /\ fail = r.raised
           /\ users' = r.users
           /\ result' = AuthResponse("register", username, password,
                                     AuthStatus(r.outcome), r.token, r.raised)
           /\ UNCHANGED <<timestamps, chats, interactions, chat_cache, user_chats_cache,
                          issued, inflight>>

\* routes/auth.py login.
LoginRequest(username, password) ==
    \E fail \in {"none", "lookup"} :
        LET r == login_user(users, username, password, fail)
        IN /\ users' = r.users
           /\ result' = AuthResponse("login", username, password,
                                     AuthStatus(r.outcome), r.token, r.raised)
           /\ UNCHANGED <<timestamps, chats, interactions, chat_cache, user_chats_cache,
                          issued, inflight>>

NextAuth ==
    \/ \E username \in Usernames, password \in Passwords :
           RegisterRequest(username, password)
    \/ \E username \in Usernames, password \in Passwords :
           LoginRequest(username, password)

SpecAuth == Init /\ [][NextAuth]_vars

\* ------------------------------------------------------------ properties



\* ------------------------------------------------ concurrent register calls
\* register_user looks the username up and inserts the user later: a register
\* on another thread or worker can commit in between.
\* An insert that no constraint ever rejects.
UniqueViolationNever(us, username) == FALSE

\* unique=True / unique_username_constraint on users.username: the insert of
\* a second row with this username raises IntegrityError at the commit.
UniqueViolation(us, username) == \E r \in us : r.username = username

\* UserRepository.create_user: the row is inserted, or IntegrityError is
\* caught, the session rolled back and HTTPException(409) raised.
create_user(us, username, hashed_password) ==
    IF UniqueViolation(us, username)
    THEN AuthRet(us, "HTTPException", <<>>, "insert")
    ELSE AuthRet(us \cup {[id |-> Cardinality(us) + 1, username |-> username,
                           hashed_password |-> hashed_password]},
                 "none", <<>>, "none")

\* register_user lines 109-120 around create_user: the token for the new
\* user; "except UserAlreadyExistsException: raise" lets that exception
\* through and "except Exception" turns every other one, HTTPException
\* included, into InternalServerException.
register_user_insert(us, username, password, salt) ==
    LET c == create_user(us, username, hash_password(password, salt))
    IN IF c.outcome = "none"
       THEN AuthRet(c.users, "none",
                    <<create_access_token([sub |-> username])>>, "none")
       ELSE IF c.outcome = "UserAlreadyExistsException"
       THEN AuthRet(c.users, c.outcome, <<>>, c.raised)
       ELSE AuthRet(c.users, "InternalServerException", <<>>, c.raised)

\* routes/auth.py register down to register_user line 103-107: the lookup of
\* the username; a taken username ends the request with 409.
RegisterStart(p, username, password) ==
    /\ inflight[p].pc = "idle"
    /\ IF get_user_by_username(users, username) # {}
       THEN /\ result' = AuthResponse("register", username, password,
                                      AuthStatus("UserAlreadyExistsException"),
                                      <<>>, "none")
            /\ UNCHANGED inflight
       ELSE /\ \E salt \in Salts :
                   inflight' = [inflight EXCEPT ![p] =
                                   [pc |-> "register_insert",
                                    username |-> username,
                                    password |-> password, salt |-> salt]]
            /\ UNCHANGED result
    /\ UNCHANGED <<timestamps, users, chats, interactions, chat_cache,
                   user_chats_cache, issued>>

\* register_user lines 109-120 and the route's except clauses.
RegisterInsert(p) ==
    /\ inflight[p].pc = "register_insert"
    /\ LET r == register_user_insert(users, inflight[p].username,
                                     inflight[p].password, inflight[p].salt)
       IN /\ users' = r.users
          /\ result' = AuthResponse("register", inflight[p].username,
                                    inflight[p].password,
                                    AuthStatus(r.outcome), r.token, r.raised)
    /\ inflight' = [inflight EXCEPT ![p] = Idle]
    /\ UNCHANGED <<timestamps, chats, interactions, chat_cache,
                   user_chats_cache, issued>>

NextConcRegister ==
    \/ \E p \in Procs, username \in Usernames, password \in Passwords :
           RegisterStart(p, username, password)
    \/ \E p \in Procs : RegisterInsert(p)

SpecConcRegister == InitConc /\ [][NextConcRegister]_vars

\* ---------------------------------------------- concurrent create_chat calls
\* create_chat commits the rows and fills chat_cache, then tests
\* "user_id in user_chats_cache" and then appends to the user's list or
\* assigns a new one: a call on another thread can run between the test and
\* the write. create_chat lines 57-88: ids, rows, commit, chat_cache entry.
CreateChatStart(p, u, name) ==
    /\ inflight[p].pc = "idle"
    /\ Cardinality(chats) < MaxChats
    /\ issued < MaxInteractions
    /\ LET r == create_chat(chats, interactions, chat_cache, user_chats_cache,
                            issued, name, get_response("Hello"), u, "none")
       IN /\ chats' = r.chats
          /\ interactions' = r.interactions
          /\ chat_cache' = r.cache
          /\ issued' = r.issued
          /\ inflight' = [inflight EXCEPT ![p] =
                             [pc |-> "create_check", user |-> u,
                              chat_id |-> r.chat_id, chat_name |-> name]]
    /\ UNCHANGED <<timestamps, users, user_chats_cache, result>>

\* create_chat line 91: if user_id in user_chats_cache.
CreateChatCheck(p) ==
    /\ inflight[p].pc = "create_check"
    /\ inflight' = [inflight EXCEPT ![p].pc =
                       IF inflight[p].user \in DOMAIN user_chats_cache
                       THEN "create_append" ELSE "create_assign"]
    /\ UNCHANGED <<timestamps, users, chats, interactions, chat_cache,
                   user_chats_cache, issued, result>>

\* What create_chat and the route return once the per-user list is written.
CreateChatReturn(p) ==
    /\ result' = Response("create", inflight[p].user, inflight[p].chat_id, 200,
                          chat_cache[inflight[p].chat_id].interactions,
                          <<[chat_id |-> inflight[p].chat_id,
                             chat_name |-> inflight[p].chat_name]>>,
                          inflight[p].chat_id, 0, "none")
    /\ inflight' = [inflight EXCEPT ![p] = Idle]
    /\ UNCHANGED <<timestamps, users, chats, interactions, chat_cache, issued>>

\* create_chat lines 92-94: user_chats_cache[user_id].append(...).
CreateChatAppend(p) ==
    /\ inflight[p].pc = "create_append"
    /\ user_chats_cache' =
           [user_chats_cache EXCEPT ![inflight[p].user] =
               Append(@, [chat_id |-> inflight[p].chat_id,
                          chat_name |-> inflight[p].chat_name])]
    /\ CreateChatReturn(p)

\* create_chat lines 96-98: user_chats_cache[user_id] = [...].
CreateChatAssign(p) ==
    /\ inflight[p].pc = "create_assign"
    /\ user_chats_cache' =
           Put(user_chats_cache, inflight[p].user,
               <<[chat_id |-> inflight[p].chat_id,
                  chat_name |-> inflight[p].chat_name]>>)
    /\ CreateChatReturn(p)

NextConcCreate ==
    \/ \E p \in Procs, u \in Users, name \in ChatNames : CreateChatStart(p, u, name)
    \/ \E p \in Procs : CreateChatCheck(p)
    \/ \E p \in Procs : CreateChatAppend(p)
    \/ \E p \in Procs : CreateChatAssign(p)
    \/ \E u \in Users : ListUserChatsRequest(u, TRUE)

SpecConcCreate == InitConc /\ [][NextConcCreate]_vars

\* ------------------------------------------------- timestamps of interactions
\* datetime.now(timezone.utc) read when the last value read was t: the same
\* value or a later one.
Now(t) == {t} \cup (IF t < MaxClock THEN {t + 1} ELSE {})

\* The ids of the dicts in the cached list of chat c.
CachedIds(cache, c) ==
    {cache[c].interactions[k].interaction_id :
        k \in 1..Len(cache[c].interactions)}

\* The timestamps after a repository call that took the tables and the cache
\* from (cache0) to (ints1, cache1). Rows: the rows in edited got
\* interaction.timestamp = now (t2), an inserted row got the column default
\* (t2), the others keep theirs. Cached dicts: a dict made by
\* create_interaction carries the now() it read (t1), the dicts of a chat
\* that load_chat_from_db wrote carry i.timestamp of their rows, and every
\* other dict keeps the "timestamp" it had: edit_message writes
\* only "message" and "response" of the cached dict.
TimesAfter(ts, cache0, cache1, ints1, edited, t1, t2) ==
    LET row1 == [x \in {r.id : r \in ints1} |->
                    IF x \in edited THEN t2
                    ELSE IF x \in DOMAIN ts.row THEN ts.row[x] ELSE t2]
        holder(x) == CHOOSE c \in DOMAIN cache1 : x \in CachedIds(cache1, c)
        cached1 == [x \in UNION {CachedIds(cache1, c) : c \in DOMAIN cache1} |->
                       IF x \notin DOMAIN ts.row THEN t1
                       ELSE IF holder(x) \notin DOMAIN cache0 THEN row1[x]
                       ELSE ts.cached[x]]
    IN [clock |-> t2, row |-> row1, cached |-> cached1]

\* The timestamps after the ownership check of a route, which may have loaded
\* the chat.
TimesAfterVerify(v) ==
    TimesAfter(timestamps, chat_cache, v.cache, interactions, {},
               timestamps.clock, timestamps.clock)

\* routes/chats.py create_chat with timestamps.
CreateChatTimed(u, name) ==
    /\ Cardinality(chats) < MaxChats
    /\ issued < MaxInteractions
    /\ LET r == create_chat(chats, interactions, chat_cache, user_chats_cache,
                            issued, name, get_response("Hello"), u, "none")
       IN /\ chats' = r.chats
          /\ interactions' = r.interactions
          /\ chat_cache' = r.cache
          /\ user_chats_cache' = r.ucache
          /\ issued' = r.issued
          /\ result' = Response("create", u, r.chat_id, 200, r.value,
                                <<[chat_id |-> r.chat_id, chat_name |-> name]>>,
                                r.chat_id, 0, "none")
          /\ \E t1 \in Now(timestamps.clock) : \E t2 \in Now(t1) :
                 timestamps' = TimesAfter(timestamps, chat_cache, r.cache,
                                          r.interactions, {}, t1, t2)
    /\ UNCHANGED <<users, inflight>>

\* A message route with timestamps: 403 when the ownership check fails,
\* else the reply made from the service's return value.
TimedReply(op, u, c, v, r, edited, t1, t2) ==
    IF ~v.ok
    THEN /\ chat_cache' = v.cache
         /\ result' = Response(op, u, c, 403, <<>>, <<>>, 0, -1, "none")
         /\ timestamps' = TimesAfterVerify(v)
         /\ UNCHANGED <<users, chats, interactions, user_chats_cache, issued,
                        inflight>>
    ELSE /\ interactions' = r.interactions
         /\ chat_cache' = r.cache
         /\ issued' = r.issued
         /\ result' = Response(op, u, c, IF r.found THEN 200 ELSE 404,
                               r.value, <<>>, r.target, r.index, "none")
         /\ timestamps' = TimesAfter(TimesAfterVerify(v), v.cache, r.cache,
                                     r.interactions, edited, t1, t2)
         /\ UNCHANGED <<users, chats, user_chats_cache, inflight>>

\* routes/messages.py add_message with timestamps.
AddMessageTimed(u, c, m) ==
    /\ issued < MaxInteractions
    /\ LET v == Verify(u, c, FALSE)
       IN \E t1 \in Now(timestamps.clock) : \E t2 \in Now(t1) :
              TimedReply("add", u, c, v,
                         svc_add_message(chats, interactions, v.cache, issued,
                                         c, m, "none"),
                         {}, t1, t2)

\* routes/messages.py edit_message with timestamps.
EditMessageTimed(u, c, x, m) ==
    LET v == Verify(u, c, FALSE)
    IN \E t2 \in Now(timestamps.clock) :
           TimedReply("edit", u, c, v,
                      svc_edit_message(chats, interactions, v.cache, issued,
                                       x, m, "none"),
                      {x} \cap {r.id : r \in interactions}, t2, t2)

\* routes/messages.py delete_message with timestamps.
DeleteMessageTimed(u, c, x) ==
    /\ x \in InteractionIds
    /\ LET v == Verify(u, c, FALSE)
       IN TimedReply("delete", u, c, v,
                     svc_delete_message(chats, interactions, v.cache, issued,
                                        x, "none"),
                     {}, timestamps.clock, timestamps.clock)

\* A restart with timestamps: the cached dicts are gone, the rows stay.
RestartTimed ==
    /\ chat_cache' = EmptyDict
    /\ user_chats_cache' = EmptyDict
    /\ result' = NoResponse
    /\ timestamps' = [timestamps EXCEPT !.cached = EmptyDict]
    /\ UNCHANGED <<users, chats, interactions, issued, inflight>>

\* The message texts sent in SpecTimestamps.
TimedMessages == {"hello"}

NextTimestamps ==
    \/ \E u \in Writers : \E name \in ChatNames : CreateChatTimed(u, name)
    \/ \E u \in Writers : \E c \in ChatIds : \E m \in TimedMessages :
           AddMessageTimed(u, c, m)
    \/ \E u \in Writers : \E c \in ChatIds : \E x \in InteractionIds :
           \E m \in TimedMessages : EditMessageTimed(u, c, x, m)
    \/ \E u \in Writers : \E c \in ChatIds : \E x \in InteractionIds :
           DeleteMessageTimed(u, c, x)
    \/ RestartTimed

SpecTimestamps == Init /\ [][NextTimestamps]_vars

\* ------------------------------------------------------ property helpers

ChatExists(c) == \E r \in chats : r.id = c

Owner(c) == (CHOOSE r \in chats : r.id = c).user_id

StoredIds == {r.id : r \in interactions}

\* A list of dicts without the suggestions key.
Strip(list) ==
    [k \in 1..Len(list) |->
        [interaction_id |-> list[k].interaction_id, index |-> list[k].index,
         message |-> list[k].message, response |-> list[k].response]]

\* The stored interactions of a chat, in index order.
StoredList(c) ==
    LET ordered == OrderByIndex(RowsOf(interactions, c))
    IN [k \in 1..Len(ordered) |->
           [interaction_id |-> ordered[k].id, index |-> ordered[k].index,
            message |-> ordered[k].message, response |-> ordered[k].response]]

AllIdle == \A p \in DOMAIN inflight : inflight[p].pc = "idle"

\* The stored indices of chat c are exactly 0..n-1, each once.
StoredContiguous(c) ==
    LET rows == RowsOf(interactions, c)
    IN {r.index : r \in rows} = 0..(Cardinality(rows) - 1)

\* The cached dict at list position k has index k (positions from 0).
CachedContiguous(c) ==
    c \in DOMAIN chat_cache =>
        \A k \in 1..Len(chat_cache[c].interactions) :
            chat_cache[c].interactions[k].index = k - 1

\* C1: with requests handled one at a time, the indices of every chat are
\* exactly 0..n-1 in storage and in the cache, with no gap and no duplicate,
\* and an add gets the number of interactions the chat had as its index.
C1_IndexContiguity ==
    /\ \A c \in ChatIds : StoredContiguous(c) /\ CachedContiguous(c)
    /\ (result.op = "add" /\ result.status = 200) =>
           /\ result.value[1].index = result.index
           /\ result.index = Cardinality(RowsOf(interactions, result.target)) - 1

\* An add that follows a truncation: the only chat has lost the interaction
\* with id 2, and the add with id 3 got index 1.
C1_Witness ==
    /\ result.op = "add" /\ result.status = 200
    /\ Cardinality(chats) = 1
    /\ result.value[1].interaction_id = 3
    /\ result.index = 1

\* C2: for every chat with a cache entry, get_chat returns what a load from
\* storage returns: the load finds the chat, with the same owner and name and
\* the same interactions in the same order.
C2_CacheAgreesWithStorage ==
    \A c \in DOMAIN chat_cache :
        LET l == load_chat_from_db(chats, interactions, chat_cache, c, TRUE)
            g == get_chat(chats, interactions, chat_cache, c, TRUE)
        IN /\ l.found = g.found
           /\ l.data.user_id = g.data.user_id
           /\ l.data.chat_name = g.data.chat_name
           /\ Strip(l.data.interactions) = Strip(g.data.interactions)

\* C3: a get, add, edit or delete request of a user on a chat that exists and
\* that another user created ends with 403.
C3_NonOwnerDenied ==
    (/\ result.op \in {"get", "add", "edit", "delete"}
     /\ ChatExists(result.chat_id)
     /\ Owner(result.chat_id) # result.user)
        => result.status = 403

\* A user was denied an edit on a chat that exists, has interactions, and is
\* another user's.
C3_Witness ==
    /\ result.op = "edit" /\ result.status = 403
    /\ ChatExists(result.chat_id)
    /\ Owner(result.chat_id) # result.user
    /\ RowsOf(interactions, result.chat_id) # {}

\* C4: an edit or delete request works on an interaction only if the caller
\* owns the chat that interaction belongs to.
C4_OnlyOwnerChangesInteraction ==
    (result.op \in {"edit", "delete"} /\ result.target # 0)
        => Owner(result.target) = result.user

\* After a successful edit at index i the chat has i+1 interactions, in the
\* returned list, in storage and in the cache.
EditTruncates ==
    (result.op = "edit" /\ result.status = 200) =>
        LET c == result.target
            i == result.index
        IN /\ Len(result.value) = i + 1
           /\ Cardinality(RowsOf(interactions, c)) = i + 1
           /\ Strip(result.value) = StoredList(c)
           /\ c \in DOMAIN chat_cache
           /\ Strip(chat_cache[c].interactions) = StoredList(c)

\* A get returns the interactions storage holds for the chat.
GetReturnsStored ==
    (result.op = "get" /\ result.status = 200) =>
        Strip(result.value) = StoredList(result.chat_id)

\* An interaction that has been removed from storage is never stored again.
RemovedStaysRemoved ==
    \A x \in 1..issued : x \notin StoredIds => x \notin StoredIds'

\* C5: after a successful edit of the interaction at index i the chat has
\* exactly i+1 interactions in storage, in the returned list and in what a
\* later get returns, and a removed interaction never comes back.
C5_TruncationOnEdit ==
    [](EditTruncates /\ GetReturnsStored) /\ [][RemovedStaysRemoved]_vars

\* An edit at index 1 of a chat that had an interaction at index 2.
C5_Witness ==
    /\ result.op = "edit" /\ result.status = 200
    /\ result.index = 1
    /\ issued = 3 /\ Cardinality(chats) = 1
    /\ 3 \notin StoredIds

\* C6: after a successful delete of the interaction at index i the chat has
\* exactly i stored interactions and the call returns them, in index order;
\* a delete at index 0 that no database error interrupts returns the empty
\* list, not None.
C6_TruncationOnDelete ==
    /\ (result.op = "delete" /\ result.status = 200) =>
           /\ Cardinality(RowsOf(interactions, result.target)) = result.index
           /\ Len(result.value) = result.index
           /\ Strip(result.value) = StoredList(result.target)
           /\ \A k \in 1..Len(result.value) : result.value[k].index = k - 1
    /\ \A r \in interactions :
           r.index = 0 =>
               LET d == svc_delete_message(chats, interactions, chat_cache,
                                           issued, r.id, "none")
               IN d.found /\ d.value = <<>>
                  /\ RowsOf(d.interactions, r.chat_id) = {}

\* A delete at index 0 returned the empty list with status 200.
C6_Witness ==
    /\ result.op = "delete" /\ result.status = 200
    /\ result.index = 0
    /\ result.value = <<>>

\* C7: two add_message calls in flight on the same chat never hold the same
\* new_index, and once no call is in flight the indices of every chat are
\* 0..n-1 without duplicate in storage and in the cache.
C7_ConcurrentAddsDistinctIndices ==
    /\ \A p, q \in DOMAIN inflight :
           (/\ p # q
            /\ inflight[p].pc # "idle" /\ inflight[q].pc # "idle"
            /\ inflight[p].chat_id = inflight[q].chat_id)
               => inflight[p].new_index # inflight[q].new_index
    /\ AllIdle => \A c \in ChatIds : StoredContiguous(c) /\ CachedContiguous(c)

\* C8: the interaction at index 0 of every chat has no message, in storage
\* and in the cache.
C8_GreetingMessageNull ==
    /\ \A r \in interactions : r.index = 0 => r.message = None
    /\ \A c \in DOMAIN chat_cache :
           \A k \in 1..Len(chat_cache[c].interactions) :
               chat_cache[c].interactions[k].index = 0
                   => chat_cache[c].interactions[k].message = None

\* A step that is an add, edit or delete request whose commit raised leaves
\* the table and every cached list as they were; an entry the request created
\* holds what storage holds.
CommitFailureChangesNothing ==
    (result'.op \in {"add", "edit", "delete"} /\ result'.raised = "commit") =>
        /\ interactions' = interactions
        /\ chats' = chats
        /\ \A c \in DOMAIN chat_cache :
               /\ c \in DOMAIN chat_cache'
               /\ chat_cache'[c] = chat_cache[c]
        /\ \A c \in DOMAIN chat_cache' :
               Strip(chat_cache'[c].interactions) = StoredList(c)'

\* C9: if the commit of an add, edit or delete fails, the stored interactions
\* and the interaction list of every cache entry are unchanged, and the cache
\* is not ahead of storage.
C9_FailedWriteChangesNothing == [][CommitFailureChangesNothing]_vars

\* The commit of an edit raised, on a chat with three interactions.
C9_Witness ==
    /\ result.op = "edit" /\ result.raised = "commit"
    /\ \E c \in DOMAIN chat_cache : Len(chat_cache[c].interactions) = 3

\* C10: a successful create_chat returns a chat id that no other chat has and
\* one interaction with index 0, no message and the greeting as response; the
\* chat row and that interaction are stored, and the cache entry of the chat
\* holds the owner, the name and exactly that interaction.
C10_CreateChat ==
    (result.op = "create" /\ result.index = 0) =>
        LET c == result.chat_id
            name == result.listing[1].chat_name
        IN /\ Len(result.value) = 1
           /\ result.value[1].index = 0
           /\ result.value[1].message = None
           /\ result.value[1].response = "Hello! How can I assist you today?"
           /\ result.value[1].interaction_id = issued
           /\ {r \in chats : r.id = c}
                  = {[id |-> c, user_id |-> result.user, name |-> name]}
           /\ RowsOf(interactions, c)
                  = {[id |-> issued, chat_id |-> c, index |-> 0,
                      message |-> None,
                      response |-> "Hello! How can I assist you today?"]}
           /\ \A r \in interactions : r.id = issued => r.chat_id = c
           /\ c \in DOMAIN chat_cache
           /\ chat_cache[c].user_id = result.user
           /\ chat_cache[c].chat_name = name
           /\ chat_cache[c].chat_id = c
           /\ chat_cache[c].interactions = result.value

\* A second chat was created, by another user than the first.
C10_Witness ==
    /\ result.op = "create" /\ result.index = 0
    /\ Cardinality(chats) = 2
    /\ \E r \in chats : r.user_id # result.user

\* A step that is a create request whose commit raised leaves both tables and
\* both caches as they were.
CreateFailureStoresNothing ==
    (result'.op = "create" /\ result'.raised = "commit") =>
        /\ chats' = chats
        /\ interactions' = interactions
        /\ chat_cache' = chat_cache
        /\ user_chats_cache' = user_chats_cache
        /\ result'.value = <<>> /\ result'.listing = <<>>

\* C11: if the commit of create_chat fails, no chat row and no interaction
\* row is stored, no cache entry is made for the chat and the list of chats
\* cached for the owner is not changed.
C11_FailedCreateStoresNothing == [][CreateFailureStoresNothing]_vars

\* The commit of a create raised for a user who has a chat and a cached list.
C11_Witness ==
    /\ result.op = "create" /\ result.raised = "commit"
    /\ result.user \in DOMAIN user_chats_cache
    /\ \E r \in chats : r.user_id = result.user

\* C12: a list request that no database error interrupts returns one entry
\* [chat_id, chat_name] for each chat row of the caller, and nothing else.
C12_ListMatchesOwnedChats ==
    (result.op = "list" /\ result.raised = "none") =>
        LET owned == {r \in chats : r.user_id = result.user}
        IN /\ Len(result.listing) = Cardinality(owned)
           /\ \A r \in owned :
                  \E k \in 1..Len(result.listing) :
                      result.listing[k] = [chat_id |-> r.id, chat_name |-> r.name]

\* C13: a create, add, edit or delete request during which a database
\* statement raised ends with a status that is neither that of a success nor
\* that of a missing chat or interaction.
C13_StorageFailureIsInternalError ==
    (/\ result.op \in {"create", "add", "edit", "delete"}
     /\ result.raised \in {"lookup", "commit", "reload"})
        => result.status \notin {200, 404}

\* C14: every chat that was created has at least one interaction in storage
\* and, when it is cached, in its cache entry.
C14_ChatNeverEmpty ==
    \A r \in chats :
        /\ RowsOf(interactions, r.id) # {}
        /\ r.id \in DOMAIN chat_cache => Len(chat_cache[r.id].interactions) >= 1

\* The interactions the cache entry of chat c holds, and those storage holds.
CachedSet(c) ==
    {Strip(chat_cache[c].interactions)[k] :
        k \in 1..Len(chat_cache[c].interactions)}

StoredSet(c) == {StoredList(c)[k] : k \in 1..Len(StoredList(c))}

\* C15: once no add, edit or delete call is in flight, the cache entry of
\* every chat holds exactly the interactions that storage holds for it.
C15_CacheMatchesStorageWhenQuiescent ==
    AllIdle => \A c \in DOMAIN chat_cache : CachedSet(c) = StoredSet(c)

\* A step that is a request answered 403 leaves both tables as they were and
\* every cached list as it was.
DeniedChangesNothing ==
    result'.status = 403 =>
        /\ chats' = chats
        /\ interactions' = interactions
        /\ \A c \in DOMAIN chat_cache :
               /\ c \in DOMAIN chat_cache'
               /\ chat_cache'[c] = chat_cache[c]

\* C16: a get, add, edit or delete request that ends with 403 has changed no
\* chat row, no interaction row and no cached list of interactions.
C16_DeniedRequestChangesNothing == [][DeniedChangesNothing]_vars

\* A delete was denied on a cached chat with two interactions that another
\* user owns.
C16_Witness ==
    /\ result.op = "delete" /\ result.status = 403
    /\ ChatExists(result.chat_id) /\ Owner(result.chat_id) # result.user
    /\ result.chat_id \in DOMAIN chat_cache
    /\ Cardinality(RowsOf(interactions, result.chat_id)) = 2

\* C17: after a successful edit of interaction x with message m, the row x
\* has the id, chat and index it had, message m and the response computed for
\* m, and the returned list holds the same at position index; the response
\* is that of the new message.
C17_EditRewritesInPlace ==
    /\ \A r \in interactions, m \in Messages :
           LET e == svc_edit_message(chats, interactions, chat_cache, issued,
                                     r.id, m, "none")
           IN e.found =>
                  /\ {q \in e.interactions : q.id = r.id}
                         = {[r EXCEPT !.message = m, !.response = get_response(m)]}
                  /\ Len(e.value) = r.index + 1
                  /\ Strip(e.value)[r.index + 1]
                         = [interaction_id |-> r.id, index |-> r.index,
                            message |-> m, response |-> get_response(m)]
    /\ (result.op = "edit" /\ result.status = 200) =>
           LET d == Strip(result.value)[result.index + 1]
           IN /\ d.index = result.index
              /\ d.message \in Messages
              /\ d.response = get_response(d.message)
              /\ [id |-> d.interaction_id, chat_id |-> result.target,
                  index |-> d.index, message |-> d.message,
                  response |-> d.response] \in interactions

\* An edit at index 1 wrote "how are you?": the stored row has the response
\* to it.
C17_Witness ==
    /\ result.op = "edit" /\ result.status = 200 /\ result.index = 1
    /\ \E r \in RowsOf(interactions, result.target) :
           /\ r.index = 1 /\ r.message = "how are you?"
           /\ r.response = "I'm doing well! Thanks for asking. How can I assist you today?"

\* C18: for a chat id that has no cache entry and that a load does not find,
\* verify_user_ownership returns False and leaves the cache as it is; a get,
\* add, edit or delete request on such a chat id ends with 403 and the chat
\* id still has no cache entry.
C18_VerifyMissIsFalse ==
    /\ \A c \in ChatIds, u \in Users, dbok \in BOOLEAN :
           (/\ c \notin DOMAIN chat_cache
            /\ ~load_chat_from_db(chats, interactions, chat_cache, c, dbok).found)
               => LET v == verify_user_ownership(chats, interactions, chat_cache,
                                                 c, u, dbok)
                  IN ~v.ok /\ v.cache = chat_cache
    /\ (/\ result.op \in {"get", "add", "edit", "delete"}
        /\ result.chat_id \notin DOMAIN chat_cache)
           => result.status = 403

\* A get on a chat id that no chat has was denied, while another chat exists.
C18_Witness ==
    /\ result.op = "get" /\ result.status = 403
    /\ ~ChatExists(result.chat_id)
    /\ result.chat_id \notin DOMAIN chat_cache
    /\ chats # {}

\* edit_message and delete_message on an interaction id that no row has
\* return None without a database error and change nothing.
MissingIdReturnsNone ==
    \A x \in InteractionIds \ StoredIds, m \in Messages :
        LET e == svc_edit_message(chats, interactions, chat_cache, issued, x, m,
                                  "none")
            d == svc_delete_message(chats, interactions, chat_cache, issued, x,
                                    "none")
        IN /\ ~e.found /\ e.raised = "none"
           /\ e.interactions = interactions /\ e.cache = chat_cache
           /\ ~d.found /\ d.raised = "none"
           /\ d.interactions = interactions /\ d.cache = chat_cache

\* A step that is an edit or delete request answered 404 with no database
\* error leaves the tables and every cache entry as they were.
NotFoundChangesNothing ==
    (/\ result'.op \in {"edit", "delete"}
     /\ result'.status = 404 /\ result'.raised = "none") =>
        /\ chats' = chats
        /\ interactions' = interactions
        /\ \A c \in DOMAIN chat_cache :
               c \in DOMAIN chat_cache' /\ chat_cache'[c] = chat_cache[c]

\* C19: an edit or delete of an interaction id that is not stored returns
\* None (404), raises nothing, and leaves storage and every cache entry
\* unchanged.
C19_MissingInteractionIsNotFound ==
    []MissingIdReturnsNone /\ [][NotFoundChangesNothing]_vars

\* The owner of a cached chat with two interactions got 404 for a delete.
C19_Witness ==
    /\ result.op = "delete" /\ result.status = 404 /\ result.raised = "none"
    /\ result.chat_id \in DOMAIN chat_cache
    /\ Len(chat_cache[result.chat_id].interactions) = 2
    /\ Cardinality(RowsOf(interactions, result.chat_id)) = 2

\* add_message on a chat id with no cache entry and nothing to load returns
\* None and changes nothing.
AddToMissingChatReturnsNone ==
    \A c \in ChatIds, m \in Messages :
        (/\ c \notin DOMAIN chat_cache
         /\ ~load_chat_from_db(chats, interactions, chat_cache, c, TRUE).found)
            => LET a == svc_add_message(chats, interactions, chat_cache, issued,
                                        c, m, "none")
               IN /\ ~a.found /\ a.raised = "none"
                  /\ a.interactions = interactions
                  /\ a.cache = chat_cache
                  /\ a.issued = issued

\* A step that is an add answered "not found" with no database error leaves
\* the tables and the cache as they were.
AddNotFoundChangesNothing ==
    (result'.op = "add" /\ result'.status = 404 /\ result'.raised = "none") =>
        /\ chats' = chats
        /\ interactions' = interactions
        /\ chat_cache' = chat_cache
        /\ result'.chat_id \notin DOMAIN chat_cache'

\* C20: add_message on a chat id that is not cached and not loadable returns
\* None (not found), stores no interaction and makes no cache entry.
C20_AddToMissingChatIsNotFound ==
    []AddToMissingChatReturnsNone /\ [][AddNotFoundChangesNothing]_vars

\* add_message returned None for a chat id that no chat has, while another
\* chat exists.
C20_Witness ==
    /\ result.op = "add" /\ result.status = 404 /\ result.raised = "none"
    /\ ~ChatExists(result.chat_id)
    /\ result.chat_id \notin DOMAIN chat_cache
    /\ chats # {}

\* Every cache entry carries the owner and the name of the chat row with its
\* id.
CacheCarriesRow ==
    \A c \in DOMAIN chat_cache :
        /\ chat_cache[c].chat_id = c
        /\ \E r \in chats : /\ r.id = c
                             /\ r.user_id = chat_cache[c].user_id
                             /\ r.name = chat_cache[c].chat_name

\* A step keeps every chat row as it is, adds at most rows with a new id whose
\* owner and name are those of the create request, and keeps owner and name
\* of every cache entry it keeps.
ChatRowsFixed ==
    /\ \A r \in chats : r \in chats'
    /\ \A r \in chats' \ chats :
           /\ \A q \in chats : q.id # r.id
           /\ result'.op = "create" /\ result'.user = r.user_id
           /\ result'.listing = <<[chat_id |-> r.id, chat_name |-> r.name]>>
    /\ \A c \in DOMAIN chat_cache \cap DOMAIN chat_cache' :
           /\ chat_cache'[c].user_id = chat_cache[c].user_id
           /\ chat_cache'[c].chat_name = chat_cache[c].chat_name

\* C21: owner and name of a chat, in its row and in its cache entry, are those
\* given to create_chat, and no later request changes them.
C21_OwnerAndNameFixed == []CacheCarriesRow /\ [][ChatRowsFixed]_vars

\* With two chats of different owners and names stored, the second chat was
\* loaded into an emptied cache by a get of its owner.
C21_Witness ==
    /\ result.op = "get" /\ result.status = 200 /\ result.chat_id = 2
    /\ DOMAIN chat_cache = {2}
    /\ chat_cache[2].chat_name = "Recipes"
    /\ \E r \in chats : r.id = 1 /\ r.user_id # result.user

\* A step that is a register request for a username that has a user row
\* ends with 409 unless the lookup raised, returns no token and leaves the
\* users table as it was.
TakenUsernameRefused ==
    (/\ result'.op = "register"
     /\ \E r \in users : r.username = result'.username) =>
        /\ result'.raised = "none" => result'.status = 409
        /\ result'.status # 200
        /\ result'.token = <<>>
        /\ users' = users

\* C22: a register for a username that already has a user row fails with
\* "username is already taken" (409), returns no token and leaves the users
\* table unchanged.
C22_RegisterTakenUsername == [][TakenUsernameRefused]_vars

\* A register was refused with 409 while both usernames are registered.
C22_Witness ==
    /\ result.op = "register" /\ result.status = 409
    /\ Cardinality(users) = 2
    /\ \E r \in users : r.username = result.username

\* C23: a login that no database error interrupts returns a token exactly
\* when a user row has the username and its hash is the hash of the password
\* under the row's salt, and otherwise ends with 401 and no token; right after
\* a successful register a login with the same credentials succeeds.
C23_LoginIffRegisteredPassword ==
    /\ (result.op = "login" /\ result.raised = "none") =>
           LET valid == \E r \in users :
                            /\ r.username = result.username
                            /\ r.hashed_password
                                   = hash_password(result.password,
                                                   r.hashed_password.salt)
           IN /\ result.status = 200 <=> valid
              /\ result.status # 200 => result.status = 401 /\ result.token = <<>>
              /\ result.status = 200 =>
                     result.token = <<[sub |-> result.username,
                                       token_type |-> "bearer"]>>
    /\ (result.op = "register" /\ result.status = 200) =>
           login_user(users, result.username, result.password, "none").outcome
               = "none"

\* A login was refused for a registered username: the password was not the
\* registered one.
C23_Witness ==
    /\ result.op = "login" /\ result.status = 401 /\ result.raised = "none"
    /\ \E r \in users : r.username = result.username

\* C24: for every chat, verify_user_ownership returns True for the user who
\* created it, with or without a cache entry for the chat.
C24_CreatorNeverDenied ==
    \A r \in chats :
        verify_user_ownership(chats, interactions, chat_cache, r.id, r.user_id,
                              TRUE).ok

\* A step that is a successful add, edit or delete request on chat X leaves
\* the rows and the cached list of every other chat as they were.
OtherChatsUntouched ==
    (result'.op \in {"add", "edit", "delete"} /\ result'.status = 200) =>
        \A c \in ChatIds \ {result'.chat_id} :
            /\ RowsOf(interactions', c) = RowsOf(interactions, c)
            /\ c \in DOMAIN chat_cache =>
                   /\ c \in DOMAIN chat_cache'
                   /\ chat_cache'[c].interactions = chat_cache[c].interactions

\* C25: a successful add, edit or delete request addressed to chat X changes
\* the stored and cached interactions of no other chat, whatever chat the
\* interaction id of the request belongs to.
C25_RequestTouchesOwnChatOnly == [][OtherChatsUntouched]_vars

\* C26: with one add_message overlapping one edit_message or delete_message,
\* once no call is in flight the indices of every chat are 0..n-1 in storage
\* and in the cache.
C26_IndicesContiguousAfterTruncation ==
    AllIdle =>
        \A c \in ChatIds :
            StoredContiguous(c) /\ CachedContiguous(c)

\* load_chat_from_db on chat c at the current state: None, with the cache as it
\* was, exactly when c has no stored row or no chat row; otherwise the chat
\* row's owner and name with the stored rows in index order, written over the
\* cache entry of c.
LoadResult(c, dbok) ==
    LET l == load_chat_from_db(chats, interactions, chat_cache, c, dbok)
    IN /\ ~l.found <=> (RowsOf(interactions, c) = {} \/ ~ChatExists(c))
       /\ ~l.found => l.cache = chat_cache
       /\ l.found =>
              /\ l.data.user_id = Owner(c)
              /\ \E r \in chats : r.id = c /\ r.name = l.data.chat_name
              /\ Strip(l.data.interactions) = StoredList(c)
              /\ c \in DOMAIN l.cache
              /\ l.cache[c] = l.data
              /\ \A d \in DOMAIN chat_cache \ {c} :
                     d \in DOMAIN l.cache /\ l.cache[d] = chat_cache[d]

\* The same, for a load whose queries do not raise.
LoadResultWithoutFailure == \A c \in ChatIds : LoadResult(c, TRUE)

\* C27: load_chat_from_db returns None and writes no cache entry exactly when
\* the chat has no stored interaction or no chat row; otherwise it returns the
\* owner, the name and the stored interactions in index order and overwrites
\* the cache entry. Stated for every outcome of the queries.
C27_LoadNotFoundExactly ==
    \A c \in ChatIds : \A dbok \in BOOLEAN : LoadResult(c, dbok)

\* get_chat on chat c at the current state. Cached: the entry, whatever the
\* tables hold and whether or not a query would raise, and the cache as it was.
\* Not cached and loadable: what load_chat_from_db returns, now the entry of c.
\* Not cached and not loadable: None, and still no entry for c.
GetChatReadThrough ==
    \A c \in ChatIds : \A dbok \in BOOLEAN :
        LET g == get_chat(chats, interactions, chat_cache, c, dbok)
            l == load_chat_from_db(chats, interactions, chat_cache, c, dbok)
        IN IF c \in DOMAIN chat_cache
           THEN /\ g.found
                /\ g.data = chat_cache[c]
                /\ g.cache = chat_cache
                /\ get_chat({}, {}, chat_cache, c, dbok) = g
           ELSE IF l.found
           THEN /\ g.found
                /\ g.data = l.data
                /\ c \in DOMAIN g.cache
                /\ g.cache[c] = g.data
           ELSE /\ ~g.found
                /\ c \notin DOMAIN g.cache

\* A step of a request: a get request that is answered changes no table and
\* returns the list of the entry it found; no request of any kind takes a chat
\* out of chat_cache.
NoEntryRemoved ==
    result'.op # "none" =>
        /\ DOMAIN chat_cache \subseteq DOMAIN chat_cache'
        /\ (result'.op = "get" /\ result'.status = 200) =>
               /\ chats' = chats
               /\ interactions' = interactions
               /\ result'.chat_id \in DOMAIN chat_cache =>
                      Strip(result'.value) =
                          Strip(chat_cache[result'.chat_id].interactions)

\* C28: get_chat is a read-through cache: a cached chat is returned from the
\* cache without reading or changing the tables, a chat that is not cached is
\* loaded and its entry written, a chat that cannot be loaded gives None and
\* no entry; and no request removes a cache entry.
C28_GetChatReadThrough == []GetChatReadThrough /\ [][NoEntryRemoved]_vars

\* A get request answered from the cache, in a state where another stored chat
\* has no entry and a get_chat of it would load it.
C28_Witness ==
    /\ result.op = "get"
    /\ result.status = 200
    /\ result.chat_id \in DOMAIN chat_cache
    /\ \E c \in ChatIds :
           /\ c \notin DOMAIN chat_cache
           /\ get_chat(chats, interactions, chat_cache, c, TRUE).found

\* chat_cache without the entry of chat c: the state of the cache in which a
\* call finds c not cached.
Without(cache, c) == [d \in DOMAIN cache \ {c} |-> cache[d]]

\* What edit_message returns for interaction x, and what a get_chat of the
\* chat returns after it, when the call starts with this cache.
EditThenGet(cache, x, m) ==
    LET c == (CHOOSE r \in interactions : r.id = x).chat_id
        r == edit_message(chats, interactions, cache, issued, x, m,
                          get_response(m), "none")
        g == get_chat(chats, r.interactions, r.cache, c, TRUE)
    IN [returned |-> r.found, list |-> Strip(r.value),
        got |-> g.found, chat |-> Strip(g.data.interactions)]

\* The same for delete_message.
DeleteThenGet(cache, x) ==
    LET c == (CHOOSE r \in interactions : r.id = x).chat_id
        r == delete_message(chats, interactions, cache, issued, x, "none")
        g == get_chat(chats, r.interactions, r.cache, c, TRUE)
    IN [returned |-> r.found, list |-> Strip(r.value),
        got |-> g.found, chat |-> Strip(g.data.interactions)]

\* The chat of a stored interaction, when it is cached with the stored list.
CachedAsStored(x) ==
    LET c == (CHOOSE r \in interactions : r.id = x).chat_id
    IN /\ c \in DOMAIN chat_cache
       /\ Strip(chat_cache[c].interactions) = StoredList(c)

\* The lists edit_message and delete_message return are the same with and
\* without a cache entry, for a chat cached with its stored list.
ReturnedListsAgree ==
    \A x \in StoredIds :
        CachedAsStored(x) =>
            LET c == (CHOOSE r \in interactions : r.id = x).chat_id
            IN /\ DeleteThenGet(chat_cache, x).list =
                      DeleteThenGet(Without(chat_cache, c), x).list
               /\ \A m \in Messages :
                      EditThenGet(chat_cache, x, m).list =
                          EditThenGet(Without(chat_cache, c), x, m).list

\* C29: for a chat cached with its stored list, edit_message and
\* delete_message return the same list of interactions whether or not the
\* chat has a cache entry when the call starts, and a get_chat after the call
\* returns the same in both cases.
C29_SameWithAndWithoutCache ==
    \A x \in StoredIds :
        CachedAsStored(x) =>
            LET c == (CHOOSE r \in interactions : r.id = x).chat_id
            IN /\ DeleteThenGet(chat_cache, x) =
                      DeleteThenGet(Without(chat_cache, c), x)
               /\ \A m \in Messages :
                      EditThenGet(chat_cache, x, m) =
                          EditThenGet(Without(chat_cache, c), x, m)

\* The stored rows of chat c with an index below i are rows after the step,
\* and the cached dicts of c with an index below i are, in the same positions,
\* cached dicts of c after the step (id, index, message and response).
EarlierUnchanged(c, i) ==
    /\ \A r \in RowsOf(interactions, c) : r.index < i => r \in interactions'
    /\ c \in DOMAIN chat_cache =>
           /\ c \in DOMAIN chat_cache'
           /\ \A k \in 1..Len(chat_cache[c].interactions) :
                  chat_cache[c].interactions[k].index < i =>
                      /\ k <= Len(chat_cache'[c].interactions)
                      /\ Strip(chat_cache'[c].interactions)[k] =
                             Strip(chat_cache[c].interactions)[k]

\* A step of an answered edit or delete request on the interaction at index i
\* keeps what is below i in its chat; a step of an answered add request keeps
\* every interaction of its chat.
WriteKeepsEarlier ==
    /\ (result'.op \in {"edit", "delete"} /\ result'.status = 200) =>
           EarlierUnchanged(result'.target, result'.index)
    /\ (result'.op = "add" /\ result'.status = 200) =>
           EarlierUnchanged(result'.target, MaxInteractions + 1)

\* C30: edit_message and delete_message on the interaction at index i leave
\* every interaction of the chat with a smaller index as it was, in the table
\* and in the cache, and add_message leaves every interaction of the chat as
\* it was.
C30_WriteKeepsEarlier == [][WriteKeepsEarlier]_vars

\* A delete request answered for an interaction at index 1 or more, with the
\* earlier interactions of the chat stored and cached.
C30_Witness ==
    /\ result.op = "delete"
    /\ result.status = 200
    /\ result.index >= 1
    /\ result.target \in DOMAIN chat_cache
    /\ Len(chat_cache[result.target].interactions) = result.index
    /\ Cardinality(RowsOf(interactions, result.target)) = result.index

\* The cached dict of chat c at list position k: its index is k - 1, a row of
\* c with its id is stored and has that index, and looking the dict up by id
\* and looking it up by index both give position k.
CachedMatchesRow(c, k) ==
    LET list == chat_cache[c].interactions
        d == list[k]
    IN /\ d.index = k - 1
       /\ \E r \in RowsOf(interactions, c) :
              r.id = d.interaction_id /\ r.index = d.index
       /\ \A r \in interactions : r.id = d.interaction_id => r.index = d.index
       /\ FindById(list, d.interaction_id) = k
       /\ \A j \in 1..Len(list) : list[j].index = d.index => j = k

\* C31: with requests handled one at a time, in every cached chat the dict at
\* list position k has index k and the index of the stored row with its id,
\* so a match by id and a match by index select the same dict.
C31_IdAndIndexAgree ==
    \A c \in DOMAIN chat_cache :
        \A k \in 1..Len(chat_cache[c].interactions) : CachedMatchesRow(c, k)

\* An edit answered for the interaction at index 1 of a cached chat: the loop
\* of edit_message found the dict by id at list position 2.
C31_Witness ==
    /\ result.op = "edit"
    /\ result.status = 200
    /\ result.index = 1
    /\ result.target \in DOMAIN chat_cache
    /\ Len(chat_cache[result.target].interactions) = 2
    /\ FindById(chat_cache[result.target].interactions,
                result.value[2].interaction_id) = 2

\* A step of an answered edit request on a chat that had a cache entry: the
\* edited dict, the last of the returned list, has in the cache the timestamp
\* of its row.
EditedTimestampsAgree ==
    (/\ result'.op = "edit"
     /\ result'.status = 200
     /\ result'.target \in DOMAIN chat_cache) =>
        LET x == result'.value[Len(result'.value)].interaction_id
        IN timestamps'.cached[x] = timestamps'.row[x]

\* C32: after a successful edit_message on a chat that has a cache entry, the
\* timestamp of the edited interaction in the cache equals the timestamp of
\* its stored row.
C32_EditedTimestampCached == [][EditedTimestampsAgree]_vars

\* C33: with create_chat calls of one user overlapping, once no call is in
\* flight every chat the user created is in the user's cached list, and so in
\* what list_user_chats returns.
C33_ConcurrentCreatesBothListed ==
    AllIdle =>
        \A u \in Users :
            LET l == list_user_chats(chats, user_chats_cache, u, TRUE).listing
            IN \A r \in chats :
                   r.user_id = u =>
                       /\ u \in DOMAIN user_chats_cache
                       /\ \E k \in 1..Len(user_chats_cache[u]) :
                              user_chats_cache[u][k].chat_id = r.id
                       /\ \E k \in 1..Len(l) : l[k].chat_id = r.id

\* At most one row of users per username.
OneRecordPerUsername ==
    \A username \in Usernames :
        Cardinality(get_user_by_username(users, username)) <= 1

\* A step in which a register call returns: with 200 it returns a token for
\* the username and has inserted the one row of that username; with any other
\* status it returns no token, inserts nothing, and the username has a row,
\* so another register for it has succeeded.
RegisterOutcome ==
    (\/ \E p \in Procs : /\ inflight[p].pc = "register_insert"
                         /\ inflight'[p].pc = "idle"
     \/ inflight' = inflight /\ result'.op = "register") =>
        LET username == result'.username
        IN IF result'.status = 200
           THEN /\ result'.token = <<create_access_token([sub |-> username])>>
                /\ get_user_by_username(users, username) = {}
                /\ Cardinality(get_user_by_username(users', username)) = 1
                /\ users \subseteq users'
                /\ Cardinality(users') = Cardinality(users) + 1
           ELSE /\ result'.token = <<>>
                /\ users' = users
                /\ get_user_by_username(users, username) # {}

C35_RejectedInsertIsConflict ==
    (result.op = "register" /\ result.raised = "insert") =>
        result.status = AuthStatus("UserAlreadyExistsException")

\* C36: in every list of interactions a get, edit or delete request returns,
\* the last dict has suggestions and no other dict has: a dict that was last
\* in an earlier response has none once another follows it.
C36_SuggestionsOnLastOnly ==
    (result.op \in {"get", "edit", "delete"} /\ result.status = 200) =>
        \A k \in 1..Len(result.value) :
            result.value[k].suggestions = (k = Len(result.value))

====
